---- MODULE Spec2Model ----
(***************************************************************************)
(* Model of unixpickle/convmarkup: the block creators of the default       *)
(* registry (shape inference and attribute validation) and the             *)
(* elaboration walk that threads Dims through an AST.                      *)
(*                                                                         *)
(* An attribute value is a Go float64.  It is modelled by the integer      *)
(* number of 1/Den units it holds, so that fractional values exist and     *)
(* int(v) is a real truncation.                                            *)
(***************************************************************************)
EXTENDS Integers, Sequences, FiniteSets, TLC

\* ------------------------------------------------------------------ bounds
\* largest Width/Height of the input Dims of an isolated creator call
MaxDim == 2
\* largest Depth of the input Dims of an isolated creator call
MaxInDepth == 1
\* largest integer attribute value drawn for an isolated creator call
MaxAttr == 2

\* ------------------------------------------------------- values and helpers
\* float64 attribute values are counted in units of 1/Den
Den == 2

\* int(v) on a float64: truncation toward zero
GoInt(v) == IF v >= 0 THEN v \div Den ELSE -((-v) \div Den)

\* Go's integer division a / b (b > 0): truncation toward zero
GoDiv(a, b) == IF a >= 0 THEN a \div b ELSE -((-a) \div b)

\* attr[k] on a Go map: the zero value when the key is absent
Get(attr, k) == IF k \in DOMAIN attr THEN attr[k] ELSE 0

Range(s) == {s[i] : i \in 1..Len(s)}

Min(S) == CHOOSE x \in S : \A y \in S : x <= y

Dims(w, h, d) == [Width |-> w, Height |-> h, Depth |-> d]

\* ------------------------------------------------------------------ errors
Err(msg, a, v) == [msg |-> msg, attr |-> a, val |-> v]

NoErr == Err("nil", "", 0)

ErrUnexpectedChildren == Err("unexpected children", "", 0)

ErrNotEnoughChildren == Err("not enough children", "", 0)

\* ------------------------------------------------------------------ blocks
NilBlock == [go |-> "nil"]

\* a creator's (Block, error) return value
Ret(b) == [block |-> b, err |-> NoErr]

Fail(e) == [block |-> NilBlock, err |-> e]

RECURSIVE OutDims(_)
\* Block.OutDims() of every block type
OutDims(b) ==
  CASE b.go = "Root"       -> OutDims(b.Children[Len(b.Children)])
    [] b.go = "Input"      -> b.Out
    [] b.go = "Assert"     -> b.In
    [] b.go = "Conv"       -> b.Out
    [] b.go = "Pool"       -> b.Out
    [] b.go = "MaxPool"    -> b.Out
    [] b.go = "MeanPool"   -> b.Out
    [] b.go = "Padding"    -> b.Out
    [] b.go = "Resize"     -> b.Out
    [] b.go = "Residual"   -> OutDims(b.Residual[Len(b.Residual)])
    [] b.go = "Projection" -> b.In
    [] b.go = "FC"         -> Dims(1, 1, b.OutCount)
    [] b.go = "Repeat"     -> b.In
    [] b.go = "Linear"     -> b.In
    [] b.go = "Activation" -> b.Out

\* Block.Type() of every block type
Type(b) ==
  CASE b.go = "Root"       -> ""
    [] b.go = "Pool"       -> b.Name
    [] b.go = "Activation" -> b.Name
    [] OTHER               -> b.go

\* ---------------------------------------------------- attribute validation
\* Go ranges over the map in an unspecified order: any attribute outside
\* the allowed list may be the one reported.
onlyTheseAttrs(attrs, allowed) ==
  LET bad == DOMAIN attrs \ Range(allowed)
  IN  IF bad = {} THEN {NoErr}
      ELSE {Err("unexpected attribute", a, 0) : a \in bad}

hasAllAttrs(attrs, mustHave) ==
  LET miss == {i \in 1..Len(mustHave) : mustHave[i] \notin DOMAIN attrs}
  IN  IF miss = {} THEN NoErr
      ELSE Err("missing attribute", mustHave[Min(miss)], 0)

\* validInt without the comparison against min
validInt_noMin(attrs, min, names) ==
  LET bad == {i \in 1..Len(names) :
                /\ names[i] \in DOMAIN attrs
                /\ attrs[names[i]] # GoInt(attrs[names[i]]) * Den}
  IN  IF bad = {} THEN NoErr
      ELSE Err("must be integer", names[Min(bad)], 0)

validInt(attrs, min, names) ==
  LET bad == {i \in 1..Len(names) :
                /\ names[i] \in DOMAIN attrs
                /\ \/ attrs[names[i]] # GoInt(attrs[names[i]]) * Den
                   \/ GoInt(attrs[names[i]]) < min}
  IN  IF bad = {} THEN NoErr
      ELSE LET nm == names[Min(bad)]
               v  == attrs[nm]
           IN  IF v # GoInt(v) * Den
               THEN Err("must be integer", nm, 0)
               ELSE Err("cannot be", nm, GoInt(v))

hasAllAndOnlyInts(attrs, min, allowed) ==
  LET e1 == onlyTheseAttrs(attrs, allowed)
      e2 == hasAllAttrs(attrs, allowed)
  IN  IF e1 # {NoErr} THEN e1
      ELSE IF e2 # NoErr THEN {e2}
      ELSE {validInt(attrs, min, allowed)}

\* the three checks of CreateConv and PoolCreator, in their order
optionalInts(attrs, min, required, allowed) ==
  LET e1 == onlyTheseAttrs(attrs, allowed)
      e2 == hasAllAttrs(attrs, required)
  IN  IF e1 # {NoErr} THEN e1
      ELSE IF e2 # NoErr THEN {e2}
      ELSE {validInt(attrs, min, allowed)}

\* ---------------------------------------------------------------- creators
\* Every creator yields the set of (Block, error) pairs a call may return.
Checked(errs, b) == IF errs = {NoErr} THEN {Ret(b)} ELSE {Fail(e) : e \in errs}

CreateRoot(in, attr, children) ==
  IF Len(children) = 0 THEN {Fail(ErrNotEnoughChildren)}
  ELSE Checked(hasAllAndOnlyInts(attr, 0, <<>>),
               [go |-> "Root", Children |-> children])

CreateInput(in, attr, children) ==
  IF Len(children) # 0 THEN {Fail(ErrUnexpectedChildren)}
  ELSE Checked(hasAllAndOnlyInts(attr, 1, <<"w", "h", "d">>),
               [go |-> "Input",
                Out |-> Dims(GoInt(Get(attr, "w")), GoInt(Get(attr, "h")),
                             GoInt(Get(attr, "d")))])

\* CreateAssert that compares width and height only
CreateAssert_noDepth(in, attr, children) ==
  IF Len(children) # 0 THEN {Fail(ErrUnexpectedChildren)}
  ELSE LET errs == hasAllAndOnlyInts(attr, 0, <<"w", "h", "d">>)
       IN  IF errs # {NoErr} THEN {Fail(e) : e \in errs}
           ELSE IF \/ GoInt(Get(attr, "w")) # in.Width
                   \/ GoInt(Get(attr, "h")) # in.Height
                THEN {Fail(Err("expected dimensions", "", 0))}
                ELSE {Ret([go |-> "Assert", In |-> in])}

CreateAssert(in, attr, children) ==
  IF Len(children) # 0 THEN {Fail(ErrUnexpectedChildren)}
  ELSE LET errs == hasAllAndOnlyInts(attr, 0, <<"w", "h", "d">>)
       IN  IF errs # {NoErr} THEN {Fail(e) : e \in errs}
           ELSE IF \/ GoInt(Get(attr, "w")) # in.Width
                   \/ GoInt(Get(attr, "h")) # in.Height
                   \/ GoInt(Get(attr, "d")) # in.Depth
                THEN {Fail(Err("expected dimensions", "", 0))}
                ELSE {Ret([go |-> "Assert", In |-> in])}

\* no clamp: the extent is left as computed
Clamp_none(x) == x

\* the clamp "if res.Out.Width < 0 { res.Out.Width = 0 }"
Clamp(x) == IF x < 0 THEN 0 ELSE x

\* Width/Height of a Conv or Pool output on one axis
Span(inSize, filter, stride) == Clamp(1 + GoDiv(inSize - filter, stride))

CreateConv(in, attr, children) ==
  IF Len(children) > 0 THEN {Fail(ErrUnexpectedChildren)}
  ELSE LET errs == optionalInts(attr, 1, <<"w", "h", "n">>,
                                <<"w", "h", "n", "sx", "sy">>)
           fw == GoInt(Get(attr, "w"))
           fh == GoInt(Get(attr, "h"))
           fc == GoInt(Get(attr, "n"))
           sx == IF GoInt(Get(attr, "sx")) = 0 THEN 1 ELSE GoInt(Get(attr, "sx"))
           sy == IF GoInt(Get(attr, "sy")) = 0 THEN 1 ELSE GoInt(Get(attr, "sy"))
       IN  IF errs # {NoErr} THEN {Fail(e) : e \in errs}
           ELSE {Ret([go |-> "Conv", FilterWidth |-> fw, FilterHeight |-> fh,
                      FilterCount |-> fc, StrideX |-> sx, StrideY |-> sy,
                      Out |-> Dims(Span(in.Width, fw, sx),
                                   Span(in.Height, fh, sy), fc)])}

PoolCreator(name, in, attr, children) ==
  IF Len(children) > 0 THEN {Fail(ErrUnexpectedChildren)}
  ELSE LET errs == optionalInts(attr, 1, <<"w", "h">>,
                                <<"w", "h", "sx", "sy">>)
           pw == GoInt(Get(attr, "w"))
           ph == GoInt(Get(attr, "h"))
           sx == IF GoInt(Get(attr, "sx")) = 0 THEN pw ELSE GoInt(Get(attr, "sx"))
           sy == IF GoInt(Get(attr, "sy")) = 0 THEN ph ELSE GoInt(Get(attr, "sy"))
       IN  IF errs # {NoErr} THEN {Fail(e) : e \in errs}
           ELSE {Ret([go |-> "Pool", Name |-> name, Width |-> pw, Height |-> ph,
                      StrideX |-> sx, StrideY |-> sy,
                      Out |-> Dims(Span(in.Width, pw, sx),
                                   Span(in.Height, ph, sy), in.Depth)])}

\* CreateMaxPool and CreateMeanPool of the revision of blocks.go that has
\* one creator for each: no strides, and its own output formula
CreateMaxPool(in, attr, children) ==
  IF Len(children) > 0 THEN {Fail(ErrUnexpectedChildren)}
  ELSE LET errs == hasAllAndOnlyInts(attr, 1, <<"w", "h">>)
           w == GoInt(Get(attr, "w"))
           h == GoInt(Get(attr, "h"))
       IN  IF errs # {NoErr} THEN {Fail(e) : e \in errs}
           ELSE {Ret([go |-> "MaxPool", Width |-> w, Height |-> h,
                      Out |-> Dims(GoDiv(in.Width, w), GoDiv(in.Height, h), in.Depth)])}

CreateMeanPool(in, attr, children) ==
  IF Len(children) > 0 THEN {Fail(ErrUnexpectedChildren)}
  ELSE LET errs == hasAllAndOnlyInts(attr, 1, <<"w", "h">>)
           w == GoInt(Get(attr, "w"))
           h == GoInt(Get(attr, "h"))
       IN  IF errs # {NoErr} THEN {Fail(e) : e \in errs}
           ELSE {Ret([go |-> "MeanPool", Width |-> w, Height |-> h,
                      Out |-> Dims(GoDiv(in.Width + w - 1, w),
                                   GoDiv(in.Height + h - 1, h), in.Depth)])}

\* CreatePadding that takes an omitted side as 0
CreatePadding_optional(in, attr, children) ==
  IF Len(children) > 0 THEN {Fail(ErrUnexpectedChildren)}
  ELSE LET t == GoInt(Get(attr, "t"))
           r == GoInt(Get(attr, "r"))
           b == GoInt(Get(attr, "b"))
           l == GoInt(Get(attr, "l"))
       IN  Checked(optionalInts(attr, 0, <<>>, <<"t", "r", "b", "l">>),
                   [go |-> "Padding", Top |-> t, Right |-> r, Bottom |-> b,
                    Left |-> l,
                    Out |-> Dims(in.Width + l + r, in.Height + t + b, in.Depth)])

\* CreatePadding that widens by top and bottom and heightens by left and right
CreatePadding_swapped(in, attr, children) ==
  IF Len(children) > 0 THEN {Fail(ErrUnexpectedChildren)}
  ELSE LET t == GoInt(Get(attr, "t"))
           r == GoInt(Get(attr, "r"))
           b == GoInt(Get(attr, "b"))
           l == GoInt(Get(attr, "l"))
       IN  Checked(hasAllAndOnlyInts(attr, 0, <<"t", "r", "b", "l">>),
                   [go |-> "Padding", Top |-> t, Right |-> r, Bottom |-> b,
                    Left |-> l,
                    Out |-> Dims(in.Width + t + b, in.Height + l + r, in.Depth)])

CreatePadding(in, attr, children) ==
  IF Len(children) > 0 THEN {Fail(ErrUnexpectedChildren)}
  ELSE LET t == GoInt(Get(attr, "t"))
           r == GoInt(Get(attr, "r"))
           b == GoInt(Get(attr, "b"))
           l == GoInt(Get(attr, "l"))
       IN  Checked(hasAllAndOnlyInts(attr, 0, <<"t", "r", "b", "l">>),
                   [go |-> "Padding", Top |-> t, Right |-> r, Bottom |-> b,
                    Left |-> l,
                    Out |-> Dims(in.Width + l + r, in.Height + t + b, in.Depth)])

\* CreateResize that looks at the width and the height of its input only
CreateResize_flatOnly(in, attr, children) ==
  IF Len(children) > 0 THEN {Fail(ErrUnexpectedChildren)}
  ELSE LET errs == hasAllAndOnlyInts(attr, 1, <<"w", "h">>)
       IN  IF errs # {NoErr} THEN {Fail(e) : e \in errs}
           ELSE IF in.Width = 0 \/ in.Height = 0
                THEN {Fail(Err("input cannot be empty", "", 0))}
                ELSE {Ret([go |-> "Resize",
                           Out |-> Dims(GoInt(Get(attr, "w")),
                                        GoInt(Get(attr, "h")), in.Depth)])}

CreateResize(in, attr, children) ==
  IF Len(children) > 0 THEN {Fail(ErrUnexpectedChildren)}
  ELSE LET errs == hasAllAndOnlyInts(attr, 1, <<"w", "h">>)
       IN  IF errs # {NoErr} THEN {Fail(e) : e \in errs}
           ELSE IF in.Width = 0 \/ in.Height = 0 \/ in.Depth = 0
                THEN {Fail(Err("input cannot be empty", "", 0))}
                ELSE {Ret([go |-> "Resize",
                           Out |-> Dims(GoInt(Get(attr, "w")),
                                        GoInt(Get(attr, "h")), in.Depth)])}

\* index out of range on an empty slice: the Go runtime panics
Panic == Err("panic: index out of range", "", 0)

\* CreateResidual that compares the branch output with its own input even
\* when a Projection leads
CreateResidual_ownInput(in, attr, children) ==
  IF Len(children) < 1 THEN {Fail(ErrNotEnoughChildren)}
  ELSE LET ok == children[1].go = "Projection"
           projChildren == IF ok THEN children[1].Children ELSE <<>>
           rest == IF ok THEN Tail(children) ELSE children
       IN  IF Len(rest) < 1 THEN {Fail(ErrNotEnoughChildren)}
           ELSE IF OutDims(rest[Len(rest)]) # in
                THEN {Fail(Err("residual output size mismatch", "", 0))}
                ELSE {Ret([go |-> "Residual", Projection |-> projChildren,
                           Residual |-> rest])}

\* CreateResidual that does not look at what is left once a leading
\* Projection is detached
CreateResidual_noRecheck(in, attr, children) ==
  IF Len(children) < 1 THEN {Fail(ErrNotEnoughChildren)}
  ELSE LET ok == children[1].go = "Projection"
           projChildren == IF ok THEN children[1].Children ELSE <<>>
           rest == IF ok THEN Tail(children) ELSE children
       IN  IF Len(rest) < 1 THEN {Fail(Panic)}
           ELSE CreateResidual_ownInput(in, attr, children)

\* CreateResidual that keeps the leading Projection block itself as the
\* projection branch
CreateResidual_keepProjection(in, attr, children) ==
  IF Len(children) < 1 THEN {Fail(ErrNotEnoughChildren)}
  ELSE LET ok == children[1].go = "Projection"
           rest == IF ok THEN Tail(children) ELSE children
       IN  IF Len(rest) < 1 THEN {Fail(ErrNotEnoughChildren)}
           ELSE IF ok /\ OutDims(children[1].Children[Len(children[1].Children)])
                           # OutDims(rest[Len(rest)])
           THEN {Fail(Err("residual output size mismatch", "", 0))}
           ELSE IF ~ok /\ OutDims(rest[Len(rest)]) # in
           THEN {Fail(Err("residual output size mismatch", "", 0))}
           ELSE {Ret([go |-> "Residual",
                      Projection |-> IF ok THEN <<children[1]>> ELSE <<>>,
                      Residual |-> rest])}

CreateResidual(in, attr, children) ==
  IF Len(children) < 1 THEN {Fail(ErrNotEnoughChildren)}
  ELSE LET ok == children[1].go = "Projection"
           projChildren == IF ok THEN children[1].Children ELSE <<>>
           rest == IF ok THEN Tail(children) ELSE children
       IN  IF Len(rest) < 1 THEN {Fail(ErrNotEnoughChildren)}
           ELSE LET layersOut == OutDims(rest[Len(rest)])
                    res == [go |-> "Residual", Projection |-> projChildren,
                            Residual |-> rest]
                IN  IF ok
                    THEN IF Len(projChildren) = 0 THEN {Fail(Panic)}
                         ELSE IF OutDims(projChildren[Len(projChildren)]) # layersOut
                         THEN {Fail(Err("residual output size mismatch", "", 0))}
                         ELSE {Ret(res)}
                    ELSE IF layersOut # in
                         THEN {Fail(Err("residual output size mismatch", "", 0))}
                         ELSE {Ret(res)}

\* CreateProjection that takes an empty body
CreateProjection_anyChildren(in, attr, children) ==
  LET errs == hasAllAndOnlyInts(attr, 0, <<>>)
  IN  IF errs # {NoErr} THEN {Fail(e) : e \in errs}
      ELSE {Ret([go |-> "Projection", Children |-> children, In |-> in])}

\* CreateProjection that records the Dims its last child puts out
CreateProjection_childOut(in, attr, children) ==
  LET errs == hasAllAndOnlyInts(attr, 0, <<>>)
  IN  IF errs # {NoErr} THEN {Fail(e) : e \in errs}
      ELSE IF Len(children) = 0 THEN {Fail(ErrNotEnoughChildren)}
      ELSE {Ret([go |-> "Projection", Children |-> children,
                 In |-> OutDims(children[Len(children)])])}

CreateProjection(in, attr, children) ==
  LET errs == hasAllAndOnlyInts(attr, 0, <<>>)
  IN  IF errs # {NoErr} THEN {Fail(e) : e \in errs}
      ELSE IF Len(children) = 0 THEN {Fail(ErrNotEnoughChildren)}
      ELSE {Ret([go |-> "Projection", Children |-> children, In |-> in])}

CreateFC(in, attr, children) ==
  IF Len(children) # 0 THEN {Fail(ErrUnexpectedChildren)}
  ELSE Checked(hasAllAndOnlyInts(attr, 1, <<"out">>),
               [go |-> "FC", OutCount |-> GoInt(Get(attr, "out"))])

\* CreateRepeat that does not check the body of a single repetition
CreateRepeat_skipOne(in, attr, children) ==
  LET errs == hasAllAndOnlyInts(attr, 1, <<"n">>)
  IN  IF errs # {NoErr} THEN {Fail(e) : e \in errs}
      ELSE IF /\ GoInt(Get(attr, "n")) > 1
              /\ Len(children) > 0
              /\ OutDims(children[Len(children)]) # in
      THEN {Fail(Err("input and output lengths must match", "", 0))}
      ELSE {Ret([go |-> "Repeat", N |-> GoInt(Get(attr, "n")),
                 Children |-> children, In |-> in])}

CreateRepeat(in, attr, children) ==
  LET errs == hasAllAndOnlyInts(attr, 1, <<"n">>)
  IN  IF errs # {NoErr} THEN {Fail(e) : e \in errs}
      ELSE IF Len(children) > 0 /\ OutDims(children[Len(children)]) # in
      THEN {Fail(Err("input and output lengths must match", "", 0))}
      ELSE {Ret([go |-> "Repeat", N |-> GoInt(Get(attr, "n")),
                 Children |-> children, In |-> in])}

CreateLinear(in, attr, children) ==
  LET errs == onlyTheseAttrs(attr, <<"scale", "bias">>)
  IN  IF errs # {NoErr} THEN {Fail(e) : e \in errs}
      ELSE IF Len(children) > 0 THEN {Fail(ErrUnexpectedChildren)}
      ELSE {Ret([go |-> "Linear",
                 Scale |-> IF "scale" \in DOMAIN attr THEN attr["scale"] ELSE Den,
                 Bias |-> Get(attr, "bias"), In |-> in])}

ActivationCreator(name, in, a, c) ==
  IF Len(c) # 0 THEN {Fail(ErrUnexpectedChildren)}
  ELSE Checked(hasAllAndOnlyInts(a, 0, <<>>),
               [go |-> "Activation", Name |-> name, Out |-> in])

\* the names registered by DefaultCreators
BlockNames ==
  {"", "Input", "Assert", "Conv", "Padding", "Resize", "Residual",
   "Projection", "FC", "Repeat", "Linear", "MaxPool", "MeanPool",
   "BatchNorm", "ReLU", "Sigmoid", "Tanh", "Softmax"}

\* DefaultCreators()[name](in, attr, children)
DefaultCreators(name, in, attr, children) ==
  CASE name = ""           -> CreateRoot(in, attr, children)
    [] name = "Input"      -> CreateInput(in, attr, children)
    [] name = "Assert"     -> CreateAssert(in, attr, children)
    [] name = "Conv"       -> CreateConv(in, attr, children)
    [] name = "Padding"    -> CreatePadding(in, attr, children)
    [] name = "Resize"     -> CreateResize(in, attr, children)
    [] name = "Residual"   -> CreateResidual(in, attr, children)
    [] name = "Projection" -> CreateProjection(in, attr, children)
    [] name = "FC"         -> CreateFC(in, attr, children)
    [] name = "Repeat"     -> CreateRepeat(in, attr, children)
    [] name = "Linear"     -> CreateLinear(in, attr, children)
    [] name = "MaxPool"    -> PoolCreator("MaxPool", in, attr, children)
    [] name = "MeanPool"   -> PoolCreator("MeanPool", in, attr, children)
    [] name \in {"BatchNorm", "ReLU", "Sigmoid", "Tanh", "Softmax"}
                           -> ActivationCreator(name, in, attr, children)

\* ------------------------------------------------------------------- state
VARIABLES
  call,     \* the most recent creator call: its arguments and what it returned
  stack,    \* elaboration in progress: one frame per ASTNode.Block activation
  status,   \* "run" while elaborating, then "done" or "error"
  result,   \* what the outermost ASTNode.Block call returned
  nodes,    \* number of AST nodes entered so far (the root included)
  chain,    \* the RealizerChain of the Realize call in progress
  rstack,   \* one frame per activation of RealizerChain.Realize
  realized, \* the most recent RealizerChain.Realize call that returned
  text,     \* the contents handed to Parse
  parsed    \* what Parse returned

\* the state of the realizer chain and of the parser
realizeVars == <<chain, rstack, realized>>

parseVars == <<text, parsed>>

vars == <<call, stack, status, result, nodes, realizeVars, parseVars>>

Call(name, in, attr, children, r) ==
  [creator |-> name, in |-> in, attr |-> attr, children |-> children,
   block |-> r.block, err |-> r.err]

NoCall == [creator |-> "-", in |-> Dims(0, 0, 0), attr |-> <<>>,
           children |-> <<>>, block |-> NilBlock, err |-> NoErr]

\* a nil interface{} value, and the value a realizer makes of a block
NilVal == [by |-> "nil", go |-> "nil"]

\* no RealizerChain.Realize call has returned yet
NoRealize == [b |-> NilBlock, d |-> Dims(0, 0, 0), calls |-> <<>>, val |-> NilVal,
              supported |-> FALSE, err |-> NoErr]

\* a nil *ASTNode and a nil error
NilNode == [BlockName |-> "nil"]

NilError == [Message |-> "nil", Line |-> 0]

\* Parse has not been called yet
NotParsed == [node |-> NilNode, err |-> NilError]

\* no elaboration, no realization, no parse in progress
BlockIdle ==
  /\ stack = <<>>
  /\ status = "idle"
  /\ result = Fail(NoErr)
  /\ nodes = 0

RealizeIdle ==
  /\ chain = <<>>
  /\ rstack = <<>>
  /\ realized = NoRealize

ParseIdle ==
  /\ text = ""
  /\ parsed = NotParsed

\* ------------------------------------- isolated creator calls (SpecCreate)
\* attribute values drawn: the integers -1..MaxAttr and the fraction 1/Den
AttrVals == {v * Den : v \in -1..MaxAttr} \cup {1}

\* the attribute map name1=val1, name2=val2, ... of integer values
Ints(names, vals) ==
  [k \in Range(names) |-> Den * vals[CHOOSE i \in 1..Len(names) : names[i] = k]]

\* an attribute name no built-in block declares
Unknown == "foo"

\* a second one
Unknown2 == "bar"

\* every attribute map over the given names, with or without an unknown
\* name, and the maps that give two unknown names beside known names set to 1
AttrIn(names) ==
  LET known == UNION {[S -> AttrVals] : S \in SUBSET names}
      ones  == {[k \in S |-> Den] : S \in SUBSET names}
  IN  known \cup {m @@ (Unknown :> Den) : m \in known}
            \cup {m @@ (Unknown :> Den) @@ (Unknown2 :> Den) : m \in ones}

DimsIn == {Dims(w, h, d) : w \in 0..MaxDim, h \in 0..MaxDim, d \in 0..MaxInDepth}

\* One call of a registry creator for a childless declaration, per block name.
CallInput ==
  /\ call = NoCall
  /\ \E in \in DimsIn, attr \in AttrIn({"w", "h", "d"}) :
       \E r \in DefaultCreators("Input", in, attr, <<>>) :
          call' = Call("Input", in, attr, <<>>, r)
  /\ UNCHANGED <<stack, status, result, nodes, realizeVars, parseVars>>

CallAssert ==
  /\ call = NoCall
  /\ \E in \in DimsIn, attr \in AttrIn({"w", "h", "d"}) :
       \E r \in DefaultCreators("Assert", in, attr, <<>>) :
          call' = Call("Assert", in, attr, <<>>, r)
  /\ UNCHANGED <<stack, status, result, nodes, realizeVars, parseVars>>

CallConv ==
  /\ call = NoCall
  /\ \E in \in DimsIn, attr \in AttrIn({"w", "h", "n", "sx", "sy"}) :
       \E r \in DefaultCreators("Conv", in, attr, <<>>) :
          call' = Call("Conv", in, attr, <<>>, r)
  /\ UNCHANGED <<stack, status, result, nodes, realizeVars, parseVars>>

CallMaxPool ==
  /\ call = NoCall
  /\ \E in \in DimsIn, attr \in AttrIn({"w", "h", "sx", "sy"}) :
       \E r \in DefaultCreators("MaxPool", in, attr, <<>>) :
          call' = Call("MaxPool", in, attr, <<>>, r)
  /\ UNCHANGED <<stack, status, result, nodes, realizeVars, parseVars>>

CallMeanPool ==
  /\ call = NoCall
  /\ \E in \in DimsIn, attr \in AttrIn({"w", "h", "sx", "sy"}) :
       \E r \in DefaultCreators("MeanPool", in, attr, <<>>) :
          call' = Call("MeanPool", in, attr, <<>>, r)
  /\ UNCHANGED <<stack, status, result, nodes, realizeVars, parseVars>>

\* the same two names in the registry of that revision of blocks.go
CallCreateMaxPool ==
  /\ call = NoCall
  /\ \E in \in DimsIn, attr \in AttrIn({"w", "h"}) :
       \E r \in CreateMaxPool(in, attr, <<>>) :
          call' = Call("CreateMaxPool", in, attr, <<>>, r)
  /\ UNCHANGED <<stack, status, result, nodes, realizeVars, parseVars>>

CallCreateMeanPool ==
  /\ call = NoCall
  /\ \E in \in DimsIn, attr \in AttrIn({"w", "h"}) :
       \E r \in CreateMeanPool(in, attr, <<>>) :
          call' = Call("CreateMeanPool", in, attr, <<>>, r)
  /\ UNCHANGED <<stack, status, result, nodes, realizeVars, parseVars>>

CallPadding ==
  /\ call = NoCall
  /\ \E in \in DimsIn, attr \in AttrIn({"t", "r", "b", "l"}) :
       \E r \in DefaultCreators("Padding", in, attr, <<>>) :
          call' = Call("Padding", in, attr, <<>>, r)
  /\ UNCHANGED <<stack, status, result, nodes, realizeVars, parseVars>>

CallResize ==
  /\ call = NoCall
  /\ \E in \in DimsIn, attr \in AttrIn({"w", "h"}) :
       \E r \in DefaultCreators("Resize", in, attr, <<>>) :
          call' = Call("Resize", in, attr, <<>>, r)
  /\ UNCHANGED <<stack, status, result, nodes, realizeVars, parseVars>>

CallFC ==
  /\ call = NoCall
  /\ \E in \in DimsIn, attr \in AttrIn({"out"}) :
       \E r \in DefaultCreators("FC", in, attr, <<>>) :
          call' = Call("FC", in, attr, <<>>, r)
  /\ UNCHANGED <<stack, status, result, nodes, realizeVars, parseVars>>

\* the bodies a Repeat is called with: empty, or one FC block, whose
\* OutDims (1, 1, out) does not depend on the Dims it was elaborated with
RepeatBodies ==
  {<<>>} \cup {<<r.block>> : r \in UNION {CreateFC(Dims(0, 0, 0), Ints(<<"out">>, <<k>>), <<>>) :
                                            k \in 1..MaxAttr}}

CallRepeat ==
  /\ call = NoCall
  /\ \E in \in DimsIn, attr \in AttrIn({"n"}), children \in RepeatBodies :
       \E r \in DefaultCreators("Repeat", in, attr, children) :
          call' = Call("Repeat", in, attr, children, r)
  /\ UNCHANGED <<stack, status, result, nodes, realizeVars, parseVars>>

CallLinear ==
  /\ call = NoCall
  /\ \E in \in DimsIn, attr \in AttrIn({"scale", "bias"}) :
       \E r \in DefaultCreators("Linear", in, attr, <<>>) :
          call' = Call("Linear", in, attr, <<>>, r)
  /\ UNCHANGED <<stack, status, result, nodes, realizeVars, parseVars>>

CallActivation ==
  /\ call = NoCall
  /\ \E name \in {"BatchNorm", "ReLU", "Sigmoid", "Tanh", "Softmax"} :
       \E in \in DimsIn, attr \in AttrIn({}) :
          \E r \in DefaultCreators(name, in, attr, <<>>) :
             call' = Call(name, in, attr, <<>>, r)
  /\ UNCHANGED <<stack, status, result, nodes, realizeVars, parseVars>>

InitCreate ==
  /\ call = NoCall
  /\ BlockIdle
  /\ RealizeIdle
  /\ ParseIdle

NextCreate ==
  \/ CallInput
  \/ CallAssert
  \/ CallConv
  \/ CallMaxPool
  \/ CallMeanPool
  \/ CallCreateMaxPool
  \/ CallCreateMeanPool
  \/ CallPadding
  \/ CallResize
  \/ CallFC
  \/ CallRepeat
  \/ CallLinear
  \/ CallActivation

SpecCreate == InitCreate /\ [][NextCreate]_vars

\* ----------------------------------------------- elaboration (ASTNode.Block)
\* largest number of AST nodes of an elaborated text, the root included
MaxNodes == 5
\* deepest nesting of ASTNode.Block activations that have children
MaxNest == 3

\* an AST node's BlockName and Attrs
Decl(name, attrs) == [name |-> name, attrs |-> attrs]

\* the declarations an elaborated text is made of
Decls ==
  {Decl("Input", Ints(<<"w", "h", "d">>, <<2, 2, 1>>)),
   Decl("Conv", Ints(<<"w", "h", "n">>, <<1, 1, 1>>)),
   Decl("Conv", Ints(<<"w", "h", "n">>, <<1, 1, 2>>)),
   Decl("Conv", Ints(<<"w", "h", "n", "sx">>, <<2, 2, 1, 2>>)),
   Decl("Padding", Ints(<<"t", "r", "b", "l">>, <<0, 1, 1, 0>>)),
   Decl("MaxPool", Ints(<<"w", "h", "sx", "sy">>, <<2, 2, 1, 1>>)),
   Decl("ReLU", <<>>),
   Decl("Residual", <<>>),
   Decl("Residual", Ints(<<Unknown>>, <<1>>)),
   Decl("Projection", <<>>),
   Decl("Projection", Ints(<<Unknown>>, <<1>>)),
   Decl("Repeat", Ints(<<"n">>, <<0>>)),
   Decl("Repeat", Ints(<<"n">>, <<1>>)),
   Decl("", Ints(<<Unknown>>, <<1>>))}

\* the declarations that open a body: the containers, and one block that
\* takes no children
BodyDecls == {d \in Decls : d.name \in {"Residual", "Projection", "Repeat", "", "ReLU"}}

\* the Dims a caller hands to the outermost Block call
RootDims == {Dims(0, 0, 0), Dims(2, 2, 1)}

\* one activation of ASTNode.Block: the node, its inDims, the children
\* elaborated so far and the Dims the next child will receive.  ins and src
\* are history: the Dims each finished child was elaborated with and the
\* names of the child declarations in source order.
Frame(name, attrs, in) ==
  [name |-> name, attrs |-> attrs, in |-> in, children |-> <<>>,
   childDims |-> in, ins |-> <<>>, src |-> <<>>]

\* every child elaborated with the node's own input Dims
ChildIn_own(frame) == frame.in

\* the Dims the node's next child is elaborated with
ChildIn(frame) == frame.childDims

\* the frame after one more child has been elaborated into block b
Elaborated(frame, b, in) ==
  [frame EXCEPT !.children = Append(@, b), !.childDims = OutDims(b),
                !.ins = Append(@, in)]

Init ==
  /\ call = NoCall
  /\ \E d \in RootDims : stack = <<Frame("", <<>>, d)>>
  /\ status = "run"
  /\ result = Fail(NoErr)
  /\ nodes = 1
  /\ RealizeIdle
  /\ ParseIdle

\* Block is invoked on a child that has children of its own
BlockEnter ==
  /\ status = "run"
  /\ nodes + 1 < MaxNodes
  /\ Len(stack) < MaxNest
  /\ \E d \in BodyDecls :
       LET n == Len(stack)
       IN  stack' = Append([stack EXCEPT ![n].src = Append(@, d.name)],
                           Frame(d.name, d.attrs, ChildIn(stack[n])))
  /\ nodes' = nodes + 1
  /\ UNCHANGED <<call, status, result, realizeVars, parseVars>>

\* Block is invoked on a child without children: its loop is empty, so it
\* calls the node's creator at once and returns to the parent's loop
BlockLeaf ==
  /\ status = "run"
  /\ nodes < MaxNodes
  /\ \E d \in Decls :
       LET n == Len(stack)
           in == ChildIn(stack[n])
       IN  \E r \in DefaultCreators(d.name, in, d.attrs, <<>>) :
             /\ call' = Call(d.name, in, d.attrs, <<>>, r)
             /\ IF r.err = NoErr
                THEN /\ stack' = [stack EXCEPT
                                    ![n] = Elaborated([@ EXCEPT !.src = Append(@, d.name)],
                                                      r.block, in)]
                     /\ UNCHANGED <<status, result>>
                ELSE /\ stack' = <<>>
                     /\ status' = "error"
                     /\ result' = Fail(r.err)
  /\ nodes' = nodes + 1
  /\ UNCHANGED <<realizeVars, parseVars>>

\* a nested Block call has elaborated all its children: it calls the node's
\* creator and returns to the parent's loop
BlockReturn ==
  /\ status = "run"
  /\ Len(stack) >= 2
  /\ LET n == Len(stack)
         top == stack[n]
     IN  /\ Len(top.children) >= 1
         /\ \E r \in DefaultCreators(top.name, top.in, top.attrs, top.children) :
              /\ call' = Call(top.name, top.in, top.attrs, top.children, r)
              /\ IF r.err = NoErr
                 THEN /\ stack' = [SubSeq(stack, 1, n - 1) EXCEPT
                                     ![n - 1] = Elaborated(stack[n - 1], r.block, top.in)]
                      /\ UNCHANGED <<status, result>>
                 ELSE /\ stack' = <<>>
                      /\ status' = "error"
                      /\ result' = Fail(r.err)
  /\ UNCHANGED <<nodes, realizeVars, parseVars>>

\* the outermost Block call calls the root's creator and returns
BlockDone ==
  /\ status = "run"
  /\ Len(stack) = 1
  /\ LET top == stack[1]
     IN  \E r \in DefaultCreators(top.name, top.in, top.attrs, top.children) :
           /\ call' = Call(top.name, top.in, top.attrs, top.children, r)
           /\ stack' = <<>>
           /\ status' = IF r.err = NoErr THEN "done" ELSE "error"
           /\ result' = r
  /\ UNCHANGED <<nodes, realizeVars, parseVars>>

Next ==
  \/ BlockEnter
  \/ BlockLeaf
  \/ BlockReturn
  \/ BlockDone

Spec == Init /\ [][Next]_vars

\* ------------------------------------------- realization (RealizerChain)
\* longest RealizerChain
MaxChain == 3

ErrUnsupportedBlock == Err("unsupported block type", "", 0)

\* what a Realizer's Realize method returns
Made(obj, err) == [obj |-> obj, err |-> err]

\* the value a realizer makes of a block
Val(name, b) == [by |-> name, go |-> b.go]

\* "%T" of a block
GoType(b) == "*convmarkup." \o b.go

\* a MetaRealizer that declines every block
MetaRealizer_declines(ch, inDims, b) == Made(NilVal, ErrUnsupportedBlock)

MetaRealizer(ch, inDims, b) ==
  IF b.go \in {"Assert", "Input"} THEN Made(NilVal, NoErr)
  ELSE Made(NilVal, ErrUnsupportedBlock)

\* Realizers a chain is built from: MetaRealizer, and four that stand for
\* the realizers of other packages.  "Layers" makes a value of FC and
\* activation blocks, "Strict" fails on FC blocks with an error of its own,
\* "Any" makes a value of every block, and "Group" lowers the children of a
\* Repeat through the chain it was handed.  Each declines every other block.
Realizers == {"MetaRealizer", "Layers", "Strict", "Any", "Group"}

\* the realizer is one that calls chain.Realize on the block's children
Lowers(name, b) == name = "Group" /\ b.go = "Repeat"

\* realizer.Realize(chain, inDims, b) of a realizer that answers at once
Realize(name, ch, inDims, b) ==
  CASE name = "MetaRealizer" -> MetaRealizer(ch, inDims, b)
    [] name = "Layers" /\ b.go \in {"FC", "Activation"} -> Made(Val(name, b), NoErr)
    [] name = "Strict" /\ b.go = "FC" -> Made(NilVal, Err("cannot realize", GoType(b), 0))
    [] name = "Any" -> Made(Val(name, b), NoErr)
    [] OTHER -> Made(NilVal, ErrUnsupportedBlock)

\* every chain of at most MaxChain realizers
Chains == UNION {[1..n -> Realizers] : n \in 0..MaxChain}

\* the Dims the outermost Realize call is given
RealizeDims == Dims(1, 1, 1)

\* the block a creator returns for a valid declaration
Created(name, in, attr, children) ==
  (CHOOSE r \in DefaultCreators(name, in, attr, children) : TRUE).block

\* the blocks that are realized: an Input, an Assert, an FC, a ReLU, and two
\* Repeat blocks with those as children
RealizeBlocks ==
  LET d      == RealizeDims
      ones   == Ints(<<"w", "h", "d">>, <<1, 1, 1>>)
      input  == Created("Input", d, ones, <<>>)
      assert == Created("Assert", d, ones, <<>>)
      fc     == Created("FC", d, Ints(<<"out">>, <<1>>), <<>>)
      relu   == Created("ReLU", d, <<>>, <<>>)
      once   == Ints(<<"n">>, <<1>>)
  IN  {input, assert, fc, relu,
       Created("Repeat", d, once, <<fc, relu>>),
       Created("Repeat", d, once, <<assert, fc>>)}

\* one activation of RealizerChain.Realize(d, b): i is the position of the
\* range loop, calls the realizers called so far, and, while a realizer that
\* lowers children is running, kid counts the children it has lowered and
\* got is the error of the last of them
RFrame(d, b) ==
  [d |-> d, b |-> b, i |-> 1, calls |-> <<>>, kid |-> 0, got |-> NoErr]

\* a test that takes every error for a decline
Declined_anyError(err) == err # NoErr

\* "if err == ErrUnsupportedBlock { continue }"
Declined(err) == err = ErrUnsupportedBlock

\* a return that reports a failed realizer as unsupported
Handled_okOnly(obj, err) == [val |-> obj, supported |-> err = NoErr, err |-> err]

\* "return obj, true, err"
Handled(obj, err) == [val |-> obj, supported |-> TRUE, err |-> err]

\* the return after the loop
Unsupported(b) ==
  [val |-> NilVal, supported |-> FALSE, err |-> Err("unsupported block", GoType(b), 0)]

\* the innermost Realize call returns ret; a caller that lowers children
\* goes on after that child
Returns(ret, calls) ==
  LET n   == Len(rstack)
      top == rstack[n]
  IN  /\ realized' = [b |-> top.b, d |-> top.d, calls |-> calls, val |-> ret.val,
                      supported |-> ret.supported, err |-> ret.err]
      /\ rstack' = IF n = 1 THEN <<>>
                   ELSE [SubSeq(rstack, 1, n - 1) EXCEPT ![n - 1].kid = @ + 1,
                                                         ![n - 1].got = ret.err]

\* the rest of the loop body once the realizer at position i has returned r
Answered(r) ==
  LET n     == Len(rstack)
      top   == rstack[n]
      calls == Append(top.calls, top.i)
  IN  IF Declined(r.err)
      THEN /\ rstack' = [rstack EXCEPT ![n] = [RFrame(top.d, top.b) EXCEPT
                                                 !.i = top.i + 1, !.calls = calls]]
           /\ UNCHANGED realized
      ELSE Returns(Handled(r.obj, r.err), calls)

InitRealize ==
  /\ call = NoCall
  /\ BlockIdle
  /\ ParseIdle
  /\ chain \in Chains
  /\ \E b \in RealizeBlocks : rstack = <<RFrame(RealizeDims, b)>>
  /\ realized = NoRealize

\* one turn of the range loop: the realizer is called and answers at once
RealizerCall ==
  /\ rstack # <<>>
  /\ LET top == rstack[Len(rstack)]
     IN  /\ top.i <= Len(chain)
         /\ ~Lowers(chain[top.i], top.b)
         /\ Answered(Realize(chain[top.i], chain, top.d, top.b))
  /\ UNCHANGED <<call, stack, status, result, nodes, chain, parseVars>>

\* a realizer handed the realizers after its own only
Handed_suffix(k) == k + 1

\* "realizer.Realize(r, d, b)": the position of the chain at which the chain
\* handed to the realizer at position k starts; r is the whole chain
Handed(k) == 1

\* the realizer that is running calls chain.Realize on the next child
GroupLowers ==
  /\ rstack # <<>>
  /\ LET top == rstack[Len(rstack)]
     IN  /\ top.i <= Len(chain)
         /\ Lowers(chain[top.i], top.b)
         /\ top.got = NoErr
         /\ top.kid < Len(top.b.Children)
         /\ LET d == IF top.kid = 0 THEN top.d
                     ELSE OutDims(top.b.Children[top.kid])
            IN  rstack' = Append(rstack, [RFrame(d, top.b.Children[top.kid + 1])
                                            EXCEPT !.i = Handed(top.i)])
  /\ UNCHANGED <<call, stack, status, result, nodes, chain, realized, parseVars>>

\* the realizer that is running returns: the error of a child that could
\* not be lowered, or its value once every child has been lowered
GroupReturns ==
  /\ rstack # <<>>
  /\ LET top == rstack[Len(rstack)]
     IN  /\ top.i <= Len(chain)
         /\ Lowers(chain[top.i], top.b)
         /\ top.got # NoErr \/ top.kid = Len(top.b.Children)
         /\ Answered(IF top.got # NoErr THEN Made(NilVal, top.got)
                     ELSE Made(Val(chain[top.i], top.b), NoErr))
  /\ UNCHANGED <<call, stack, status, result, nodes, chain, parseVars>>

\* the loop has run out of realizers
ChainExhausted ==
  /\ rstack # <<>>
  /\ LET top == rstack[Len(rstack)]
     IN  /\ top.i > Len(chain)
         /\ Returns(Unsupported(top.b), top.calls)
  /\ UNCHANGED <<call, stack, status, result, nodes, chain, parseVars>>

NextRealize ==
  \/ RealizerCall
  \/ GroupLowers
  \/ GroupReturns
  \/ ChainExhausted

SpecRealize == InitRealize /\ [][NextRealize]_vars

\* ------------------------------------------------------------ parser (Parse)
\* most lines of a parsed text
MaxLines == 4

\* [A-Za-z]
Letters ==
  {"A", "B", "C", "D", "E", "F", "G", "H", "I", "J", "K", "L", "M",
   "N", "O", "P", "Q", "R", "S", "T", "U", "V", "W", "X", "Y", "Z",
   "a", "b", "c", "d", "e", "f", "g", "h", "i", "j", "k", "l", "m",
   "n", "o", "p", "q", "r", "s", "t", "u", "v", "w", "x", "y", "z"}

Digits == {"0", "1", "2", "3", "4", "5", "6", "7", "8", "9"}

\* [\-0-9\.]
ValueChars == Digits \cup {"-", "."}

\* the characters strings.TrimSpace removes
Spaces == {" ", "\t", "\r", "\n"}

\* the i-th character of a string
At(s, i) == SubSeq(s, i, i)

\* the first position from i on whose character is outside class
RECURSIVE Skip(_, _, _)
Skip(s, i, class) ==
  IF i <= Len(s) /\ At(s, i) \in class THEN Skip(s, i + 1, class) ELSE i

\* the last position down from i whose character is outside class
RECURSIVE SkipBack(_, _, _)
SkipBack(s, i, class) ==
  IF i >= 1 /\ At(s, i) \in class THEN SkipBack(s, i - 1, class) ELSE i

\* the first position from i on that holds character c, Len(s) + 1 if none
RECURSIVE Find(_, _, _)
Find(s, i, c) ==
  IF i <= Len(s) /\ At(s, i) # c THEN Find(s, i + 1, c) ELSE i

TrimSpace(s) == SubSeq(s, Skip(s, 1, Spaces), SkipBack(s, Len(s), Spaces))

HasPrefix(s, prefix) ==
  Len(s) >= Len(prefix) /\ SubSeq(s, 1, Len(prefix)) = prefix

HasSuffix(s, suffix) ==
  Len(s) >= Len(suffix) /\ SubSeq(s, Len(s) - Len(suffix) + 1, Len(s)) = suffix

\* strings.Split(s, sep) for a separator of one character
RECURSIVE Split(_, _)
Split(s, sep) ==
  LET k == Find(s, 1, sep)
  IN  IF k > Len(s) THEN <<s>>
      ELSE <<SubSeq(s, 1, k - 1)>> \o Split(SubSeq(s, k + 1, Len(s)), sep)

\* the number a string of decimal digits writes
RECURSIVE Num(_)
Num(s) ==
  IF s = "" THEN 0
  ELSE 10 * Num(SubSeq(s, 1, Len(s) - 1))
       + (CHOOSE d \in 0..9 : ToString(d) = At(s, Len(s)))

RECURSIVE Pow10(_)
Pow10(n) == IF n = 0 THEN 1 ELSE 10 * Pow10(n - 1)

\* a ParseFloat that takes every string for a number
ParseFloat_lenient(s) == [ok |-> TRUE, value |-> 0]

\* strconv.ParseFloat(s, 64) of a string over [\-0-9\.]: an optional sign,
\* then digits with at most one point and at least one digit.  The value is
\* in units of 1/Den; the texts parsed write multiples of 1/Den only.
ParseFloat(s) ==
  LET neg   == HasPrefix(s, "-")
      from  == IF neg THEN 2 ELSE 1
      point == Skip(s, from, Digits)
      dot   == point <= Len(s) /\ At(s, point) = "."
      end   == IF dot THEN Skip(s, point + 1, Digits) ELSE point
      whole == SubSeq(s, from, point - 1)
      frac  == IF dot THEN SubSeq(s, point + 1, end - 1) ELSE ""
      mag   == Den * Num(whole) + (Den * Num(frac)) \div Pow10(Len(frac))
  IN  IF end = Len(s) + 1 /\ Len(whole) + Len(frac) > 0
      THEN [ok |-> TRUE, value |-> IF neg THEN 0 - mag ELSE mag]
      ELSE [ok |-> FALSE, value |-> 0]

\* commandExpr.FindStringSubmatch(x) for ^([A-Za-z]*)(\(([^\)]*)\))?( {)?$ :
\* ok is false for a nil result, name is parsed[1], attrs parsed[3] and
\* body tells that parsed[4] is not empty
commandExpr(x) ==
  LET p    == Skip(x, 1, Letters)
      q    == Find(x, p + 1, ")")
      args == p <= Len(x) /\ At(x, p) = "(" /\ q <= Len(x)
      rest == SubSeq(x, IF args THEN q + 1 ELSE p, Len(x))
  IN  [ok |-> rest \in {"", " {"}, name |-> SubSeq(x, 1, p - 1),
       attrs |-> IF args THEN SubSeq(x, p + 1, q - 1) ELSE "",
       body |-> rest = " {"]

\* argExpr.FindStringSubmatch(x) for ^ *([A-Za-z]*)=([\-0-9\.]*) *$
argExpr(x) ==
  LET a == Skip(x, 1, {" "})
      b == Skip(x, a, Letters)
      c == Skip(x, b + 1, ValueChars)
      d == Skip(x, c, {" "})
  IN  [ok |-> b <= Len(x) /\ At(x, b) = "=" /\ d = Len(x) + 1,
       name |-> SubSeq(x, a, b - 1), value |-> SubSeq(x, b + 1, c - 1)]

ParseError(msg, line) == [Message |-> msg, Line |-> line]

ASTNode(line, name, attrs, children) ==
  [Line |-> line, BlockName |-> name, Attrs |-> attrs, Children |-> children]

\* the loop of parseAttrs from part i on (i counts from 1, Go's from 0);
\* err is "" for a nil error
RECURSIVE attrLoop(_, _, _)
attrLoop(parts, i, res) ==
  IF i > Len(parts) THEN [res |-> res, err |-> ""]
  ELSE LET match == argExpr(parts[i])
           value == ParseFloat(match.value)
       IN  IF ~match.ok \/ ~value.ok
           THEN [res |-> <<>>, err |-> "bad format for attribute " \o ToString(i - 1)]
           ELSE IF match.name \in DOMAIN res
           THEN [res |-> <<>>, err |-> "duplicate attribute: " \o match.name]
           ELSE attrLoop(parts, i + 1, res @@ (match.name :> value.value))

parseAttrs(str) ==
  IF str = "" THEN [res |-> <<>>, err |-> ""]
  ELSE attrLoop(Split(str, ","), 1, <<>>)

\* the loop of matchingClose from line i on; 0 stands for the error return
RECURSIVE closeLoop(_, _, _)
closeLoop(lines, i, numIndent) ==
  IF i > Len(lines) THEN 0
  ELSE IF lines[i] = "}"
       THEN IF numIndent = 1 THEN i ELSE closeLoop(lines, i + 1, numIndent - 1)
       ELSE IF HasSuffix(lines[i], "{")
            THEN closeLoop(lines, i + 1, numIndent + 1)
            ELSE closeLoop(lines, i + 1, numIndent)

\* matchingClose that takes the first "}" line, whatever opens before it
matchingClose_flat(lines, open) ==
  LET later == {i \in (open + 1)..Len(lines) : lines[i] = "}"}
  IN  IF later = {} THEN [idx |-> 0, err |-> "no matching }"]
      ELSE [idx |-> Min(later), err |-> ""]

matchingClose(lines, open) ==
  LET i == closeLoop(lines, open + 1, 1)
  IN  [idx |-> i, err |-> IF i = 0 THEN "no matching }" ELSE ""]

\* parseLines(off, l) and its loop from line i on (i counts from 1, Go's
\* from 0, so Go's off + i is off + i - 1 here)
RECURSIVE parseLines(_, _)
RECURSIVE parseLoop(_, _, _, _)
parseLoop(off, l, i, res) ==
  IF i > Len(l) THEN [res |-> res, err |-> NilError]
  ELSE IF l[i] = "" THEN parseLoop(off, l, i + 1, res)
  ELSE LET match == commandExpr(l[i])
           attrs == parseAttrs(match.attrs)
           close == matchingClose(l, i)
           body  == parseLines(off + i, SubSeq(l, i + 1, close.idx - 1))
           fail(msg) == [res |-> <<>>, err |-> ParseError(msg, off + i - 1)]
       IN  IF ~match.ok THEN fail("invalid block declaration")
           ELSE IF attrs.err # "" THEN fail(attrs.err)
           ELSE IF ~match.body
           THEN parseLoop(off, l, i + 1,
                          Append(res, ASTNode(off + i - 1, match.name, attrs.res, <<>>)))
           ELSE IF close.err # "" THEN fail(close.err)
           ELSE IF body.err # NilError THEN [res |-> <<>>, err |-> body.err]
           ELSE parseLoop(off, l, close.idx + 1,
                          Append(res, ASTNode(off + i - 1, match.name, attrs.res, body.res)))

\* parseLines that numbers the lines of every body from 0
parseLines_noOffset(off, l) == parseLoop(0, l, 1, <<>>)

parseLines(off, l) == parseLoop(off, l, 1, <<>>)

\* Parse(contents).  The root's nil attribute map and a node's nil child
\* list are the empty map and the empty list.
Parse(contents) ==
  LET raw   == Split(contents, "\n")
      lines == [i \in 1..Len(raw) |->
                  LET y == TrimSpace(raw[i])
                  IN  IF HasPrefix(y, "#") THEN "" ELSE y]
      r     == parseLines(0, lines)
  IN  IF r.err # NilError THEN [node |-> NilNode, err |-> r.err]
      ELSE [node |-> ASTNode(0, "", <<>>, r.res), err |-> NilError]

\* the lines the parsed texts are made of: a leaf, an indented opening
\* line, a closing line, a blank line, a comment, a leaf with attributes,
\* an opening brace without the space, and a value that is no number
LineMenu ==
  {"A", "  B {", "}", "", "# c {", "C(a=1, b=-0.5)", "B{", "A(a=a)"}

\* more single lines, parsed alone and inside a body
MoreLines ==
  {"MyBlock(a=a)", "MyBlock(b=3....14)", "MyBlock=2", "MyBlock{", "MyBlock #comment",
   "A(a=1,a=2)", "A(a=1, a=2) {", "A(a=1,)", "A(a=-)", "A(a = 1)", "A (a=1)",
   "A(a=1){", "A(a=1", "(a=1)", "\tD()  ", "A(a=1.5,b=-2.)", "A(a={) {", "{"}

\* lines joined by newlines
RECURSIVE Join(_)
Join(lines) ==
  IF Len(lines) = 1 THEN lines[1]
  ELSE lines[1] \o "\n" \o Join(Tail(lines))

\* the texts handed to Parse
Texts ==
  {Join(ls) : ls \in UNION {[1..n -> LineMenu] : n \in 1..MaxLines}}
    \cup MoreLines
    \cup {Join(<<"  B {", l, "}">>) : l \in MoreLines}

InitParse ==
  /\ call = NoCall
  /\ BlockIdle
  /\ RealizeIdle
  /\ text \in Texts
  /\ parsed = NotParsed

\* the one call of Parse
ParseText ==
  /\ parsed = NotParsed
  /\ parsed' = Parse(text)
  /\ UNCHANGED <<call, stack, status, result, nodes, realizeVars, text>>

NextParse == ParseText

SpecParse == InitParse /\ [][NextParse]_vars

\* ------------------------------------------------------------- properties
\* a float64 attribute value that holds an integer, and that integer
IsInt(v) == v % Den = 0

IntOf(v) == v \div Den

\* the attribute map has every required name, no name outside required and
\* optional, and every value is an integer of at least min
ValidAttrs(attr, required, optional, min) ==
  /\ required \subseteq DOMAIN attr
  /\ DOMAIN attr \subseteq required \cup optional
  /\ \A k \in DOMAIN attr : IsInt(attr[k]) /\ IntOf(attr[k]) >= min

\* the integer of attribute k, or def when the declaration omits it
IntOr(attr, k, def) == IF k \in DOMAIN attr THEN IntOf(attr[k]) ELSE def

Max0(x) == IF x > 0 THEN x ELSE 0

\* max(0, 1 + floor((inSize - filter) / stride))
FloorSpan(inSize, filter, stride) == Max0(1 + ((inSize - filter) \div stride))

Succeeded(c) == c.err = NoErr /\ c.block # NilBlock

Failed(c) == c.err # NoErr /\ c.block = NilBlock

\* the Dims the next child of a frame must be elaborated with: the node's
\* own input for the first child, else the previous child's OutDims
Threaded(f) ==
  IF f.children = <<>> THEN f.in ELSE OutDims(f.children[Len(f.children)])

\* every finished child of the frame was elaborated with the threaded Dims
\* and the children stand in source order
FrameThreaded(f) ==
  /\ Len(f.ins) = Len(f.children)
  /\ Len(f.src) >= Len(f.children)
  /\ \A i \in 1..Len(f.children) :
       /\ f.ins[i] = IF i = 1 THEN f.in ELSE OutDims(f.children[i - 1])
       /\ Type(f.children[i]) = f.src[i]

\* C1: Dimension threading.  At every nesting level the first child of a
\* node is elaborated with the node's input Dims and every later child with
\* the OutDims of the child elaborated just before it; when the children are
\* done the node's creator is called with the node's input Dims, its
\* attributes and the elaborated children in source order.
C1_DimensionThreading ==
  [][/\ \A k \in 1..Len(stack') : FrameThreaded(stack'[k])
     /\ (Len(stack') = Len(stack) + 1) =>
          stack'[Len(stack')].in = Threaded(stack[Len(stack)])
     /\ (nodes' = nodes + 1 /\ call' # call) =>
          /\ call'.in = Threaded(stack[Len(stack)])
          /\ call'.children = <<>>
     /\ (nodes' = nodes /\ call' # call) =>
          /\ call'.creator = stack[Len(stack)].name
          /\ call'.in = stack[Len(stack)].in
          /\ call'.attr = stack[Len(stack)].attrs
          /\ call'.children = stack[Len(stack)].children]_vars

\* a nested node whose creator was called with two children, the second
\* elaborated with Dims that differ from the node's own input
C1_Witness ==
  /\ status = "run"
  /\ Succeeded(call)
  /\ Len(call.children) >= 2
  /\ OutDims(call.children[1]) # call.in
  /\ LET f == stack[Len(stack)]
     IN  /\ f.children # <<>>
         /\ f.children[Len(f.children)] = call.block
         /\ f.ins[Len(f.ins)] = call.in

\* C2: Conv arithmetic.  With valid w, h, n >= 1 and optional sx, sy >= 1
\* (1 when absent) CreateConv succeeds with
\* Out = (max(0, 1 + floor((in.Width - w) / sx)),
\*        max(0, 1 + floor((in.Height - h) / sy)), n).
C2_ConvArithmetic ==
  (/\ call.creator = "Conv"
   /\ call.children = <<>>
   /\ ValidAttrs(call.attr, {"w", "h", "n"}, {"sx", "sy"}, 1)) =>
    /\ Succeeded(call)
    /\ call.block.Out =
         Dims(FloorSpan(call.in.Width, IntOf(call.attr["w"]), IntOr(call.attr, "sx", 1)),
              FloorSpan(call.in.Height, IntOf(call.attr["h"]), IntOr(call.attr, "sy", 1)),
              IntOf(call.attr["n"]))

\* C3: Pool arithmetic.  With valid w, h >= 1 and optional sx, sy >= 1
\* (w and h when absent) MaxPool and MeanPool succeed with
\* Out = (max(0, 1 + floor((in.Width - w) / sx)),
\*        max(0, 1 + floor((in.Height - h) / sy)), in.Depth).
C3_PoolArithmetic ==
  (/\ call.creator \in {"MaxPool", "MeanPool"}
   /\ call.children = <<>>
   /\ ValidAttrs(call.attr, {"w", "h"}, {"sx", "sy"}, 1)) =>
    /\ Succeeded(call)
    /\ call.block.Out =
         Dims(FloorSpan(call.in.Width, IntOf(call.attr["w"]),
                        IntOr(call.attr, "sx", IntOf(call.attr["w"]))),
              FloorSpan(call.in.Height, IntOf(call.attr["h"]),
                        IntOr(call.attr, "sy", IntOf(call.attr["h"]))),
              call.in.Depth)

\* the residual branch of the children handed to CreateResidual: all of
\* them but a leading Projection
Branch(children) ==
  IF children # <<>> /\ children[1].go = "Projection" THEN Tail(children)
  ELSE children

\* C4: Residual shape equality.  With branchOut the OutDims of the last
\* residual-branch child, CreateResidual succeeds iff branchOut equals the
\* inherited input (no leading Projection) or the OutDims of the last child
\* of the leading Projection; a mismatch returns an error and no block; on
\* success the Residual's OutDims is branchOut.
C4_ResidualShape ==
  (call.creator = "Residual" /\ Branch(call.children) # <<>>) =>
    LET branch == Branch(call.children)
        branchOut == OutDims(branch[Len(branch)])
        first == call.children[1]
        expected == IF first.go = "Projection"
                    THEN OutDims(first.Children[Len(first.Children)])
                    ELSE call.in
    IN  /\ Succeeded(call) <=> branchOut = expected
        /\ Failed(call) <=> branchOut # expected
        /\ Succeeded(call) => OutDims(call.block) = branchOut

\* a Residual with a leading Projection that succeeded although its branch
\* output differs from its inherited input
C4_Witness ==
  /\ call.creator = "Residual"
  /\ Succeeded(call)
  /\ call.children[1].go = "Projection"
  /\ OutDims(call.block) # call.in
  /\ call.block.Projection = call.children[1].Children

\* C5: Repeat invariance.  CreateRepeat fails unless n is an integer >= 1;
\* with a non-empty body it fails whenever the last child's OutDims differs
\* from the inherited input, for every n; when it succeeds, also with an
\* empty body, its OutDims is the inherited input.
C5_RepeatInvariance ==
  (call.creator = "Repeat") =>
    LET nOK == ValidAttrs(call.attr, {"n"}, {}, 1)
        body == call.children
        bodyOK == body = <<>> \/ OutDims(body[Len(body)]) = call.in
    IN  /\ ~nOK => Failed(call)
        /\ ~bodyOK => Failed(call)
        /\ (nOK /\ bodyOK) => Succeeded(call)
        /\ Succeeded(call) => OutDims(call.block) = call.in

\* a Repeat with n = 1 that failed only because its body changes the shape
C5_Witness ==
  /\ call.creator = "Repeat"
  /\ call.attr = Ints(<<"n">>, <<1>>)
  /\ call.children # <<>>
  /\ OutDims(call.children[1]) # call.in
  /\ Failed(call)

\* C6: Assert pass-through.  With valid integer w, h, d >= 0 CreateAssert
\* succeeds iff (w, h, d) is the inherited input on all three axes, fails
\* with no block otherwise, and on success its OutDims is its input.
C6_AssertPassThrough ==
  (/\ call.creator = "Assert"
   /\ call.children = <<>>
   /\ ValidAttrs(call.attr, {"w", "h", "d"}, {}, 0)) =>
    LET same == /\ IntOf(call.attr["w"]) = call.in.Width
                /\ IntOf(call.attr["h"]) = call.in.Height
                /\ IntOf(call.attr["d"]) = call.in.Depth
    IN  /\ same => Succeeded(call) /\ OutDims(call.block) = call.in
        /\ ~same => Failed(call)

\* an Assert that failed on the depth axis alone
C6_Witness ==
  /\ call.creator = "Assert"
  /\ ValidAttrs(call.attr, {"w", "h", "d"}, {}, 0)
  /\ IntOf(call.attr["w"]) = call.in.Width
  /\ IntOf(call.attr["h"]) = call.in.Height
  /\ IntOf(call.attr["d"]) # call.in.Depth
  /\ call.in.Width > 0
  /\ Failed(call)

\* the attributes each built-in block lists: required, optional, and the
\* minimum of the integer-typed ones
Required(name) ==
  CASE name \in {"Input", "Assert"}      -> {"w", "h", "d"}
    [] name = "Conv"                     -> {"w", "h", "n"}
    [] name \in {"MaxPool", "MeanPool"}  -> {"w", "h"}
    [] name = "Padding"                  -> {"t", "r", "b", "l"}
    [] name = "Resize"                   -> {"w", "h"}
    [] name = "FC"                       -> {"out"}
    [] name = "Repeat"                   -> {"n"}
    [] OTHER                             -> {}

Optional(name) ==
  CASE name \in {"Conv", "MaxPool", "MeanPool"} -> {"sx", "sy"}
    [] name = "Linear"                          -> {"scale", "bias"}
    [] OTHER                                    -> {}

Allowed(name) == Required(name) \cup Optional(name)

Minimum(name) == IF name \in {"Assert", "Padding"} THEN 0 ELSE 1

\* the built-in creators that take integer attributes
IntCreators ==
  {"Input", "Assert", "Conv", "MaxPool", "MeanPool", "Padding", "Resize",
   "FC", "Repeat"}

UnknownAttrs(c) == DOMAIN c.attr \ Allowed(c.creator)

MissingAttrs(c) == Required(c.creator) \ DOMAIN c.attr

FractionalAttrs(c) ==
  {k \in DOMAIN c.attr \cap Allowed(c.creator) : ~IsInt(c.attr[k])}

SubMinimumAttrs(c) ==
  {k \in DOMAIN c.attr \cap Allowed(c.creator) :
     IsInt(c.attr[k]) /\ IntOf(c.attr[k]) < Minimum(c.creator)}

\* C7: Uniform attribute validation.  For every built-in creator that takes
\* integer attributes and a declaration within the block's children rule,
\* an attribute outside the allowed set, an absent required attribute, a
\* fractional value and a value below the block's minimum each make
\* creation fail, and the error names an attribute that has the fault the
\* error reports.
C7_AttributeValidation ==
  (/\ call.creator \in IntCreators
   /\ call.creator # "Repeat" => call.children = <<>>
   /\ UnknownAttrs(call) \cup MissingAttrs(call) \cup FractionalAttrs(call)
        \cup SubMinimumAttrs(call) # {}) =>
    /\ Failed(call)
    /\ \/ call.err.msg = "unexpected attribute" /\ call.err.attr \in UnknownAttrs(call)
       \/ call.err.msg = "missing attribute" /\ call.err.attr \in MissingAttrs(call)
       \/ call.err.msg = "must be integer" /\ call.err.attr \in FractionalAttrs(call)
       \/ /\ call.err.msg = "cannot be"
          /\ call.err.attr \in SubMinimumAttrs(call)
          /\ call.err.val = IntOf(call.attr[call.err.attr])

\* a Conv whose only fault is the stride sx = 0, rejected naming sx
C7_Witness ==
  /\ call.creator = "Conv"
  /\ UnknownAttrs(call) \cup MissingAttrs(call) \cup FractionalAttrs(call) = {}
  /\ SubMinimumAttrs(call) = {"sx"}
  /\ call.err = Err("cannot be", "sx", 0)
  /\ call.block = NilBlock

\* C8: Padding additivity.  With valid integer t, r, b, l >= 0
\* CreatePadding succeeds with
\* Out = (in.Width + l + r, in.Height + t + b, in.Depth).
C8_PaddingAdditivity ==
  (/\ call.creator = "Padding"
   /\ call.children = <<>>
   /\ ValidAttrs(call.attr, {"t", "r", "b", "l"}, {}, 0)) =>
    /\ Succeeded(call)
    /\ OutDims(call.block) =
         Dims(call.in.Width + IntOf(call.attr["l"]) + IntOf(call.attr["r"]),
              call.in.Height + IntOf(call.attr["t"]) + IntOf(call.attr["b"]),
              call.in.Depth)

\* Padding(l=2, r=0, t=1, b=2) on a non-empty input: four distinct roles
C8_Witness ==
  /\ call.creator = "Padding"
  /\ call.attr = Ints(<<"l", "r", "t", "b">>, <<2, 0, 1, 2>>)
  /\ call.in = Dims(2, 1, 1)
  /\ Succeeded(call)
  /\ OutDims(call.block) = Dims(4, 4, 1)

\* C9 as stated: t, r, b, l are each optional, an omitted side counts as 0.
C9_PaddingOptional ==
  (/\ call.creator = "Padding"
   /\ call.children = <<>>
   /\ ValidAttrs(call.attr, {}, {"t", "r", "b", "l"}, 0)) =>
    /\ Succeeded(call)
    /\ OutDims(call.block) =
         Dims(call.in.Width + IntOr(call.attr, "l", 0) + IntOr(call.attr, "r", 0),
              call.in.Height + IntOr(call.attr, "t", 0) + IntOr(call.attr, "b", 0),
              call.in.Depth)

\* C9 amended: t, r, b, l are each required.  A Padding declaration whose
\* attributes are valid elaborates iff all four sides are present; one that
\* omits any of them fails with a missing-attribute error naming an omitted
\* side, and no block.
C9_PaddingRequired ==
  (/\ call.creator = "Padding"
   /\ call.children = <<>>
   /\ ValidAttrs(call.attr, {}, {"t", "r", "b", "l"}, 0)) =>
    /\ Succeeded(call) <=> DOMAIN call.attr = {"t", "r", "b", "l"}
    /\ DOMAIN call.attr # {"t", "r", "b", "l"} =>
         /\ Failed(call)
         /\ call.err.msg = "missing attribute"
         /\ call.err.attr \in {"t", "r", "b", "l"} \ DOMAIN call.attr

\* Padding(l=1, r=1, t=2) fails for want of b
C9_Witness ==
  /\ call.creator = "Padding"
  /\ call.attr = Ints(<<"l", "r", "t">>, <<1, 1, 2>>)
  /\ call.err = Err("missing attribute", "b", 0)
  /\ call.block = NilBlock

\* C10: every creator of the default registry rejects an attribute whose
\* name is outside the block's listed attribute set.
C10_RejectsUnknownAttrs ==
  (call.creator \in BlockNames /\ UnknownAttrs(call) # {}) => Failed(call)

RECURSIVE Blocks(_)
Blocks(b) ==
  LET below == CASE b.go \in {"Root", "Projection", "Repeat"} -> Range(b.Children)
                 [] b.go = "Residual" -> Range(b.Projection) \cup Range(b.Residual)
                 [] OTHER -> {}
  IN  {b} \cup UNION {Blocks(c) : c \in below}

NonNegative(d) == d.Width >= 0 /\ d.Height >= 0 /\ d.Depth >= 0

\* C12: starting from non-negative input Dims, every block of the tree that
\* elaboration builds (finished, or still under construction) has OutDims
\* whose Width, Height and Depth are all >= 0.
C12_NonNegativeShapes ==
  /\ \A i \in 1..Len(stack) :
       \A c \in Range(stack[i].children) :
          \A b \in Blocks(c) : NonNegative(OutDims(b))
  /\ status = "done" => \A b \in Blocks(result.block) : NonNegative(OutDims(b))
  /\ call.block # NilBlock => NonNegative(OutDims(call.block))

\* a finished tree that holds a Conv and a MaxPool whose filters are larger
\* than their inputs: both have an extent clamped to 0
C12_Witness ==
  /\ status = "done"
  /\ \E b \in Blocks(result.block) :
       /\ b.go = "Conv"
       /\ b.FilterHeight > 1
       /\ OutDims(b).Height = 0
  /\ \E b \in Blocks(result.block) :
       /\ b.go = "Pool"
       /\ b.Width > 1
       /\ OutDims(b).Width = 0

\* C13: a creator gives the same answer whenever it is run on the same
\* attribute map, input Dims and children: a second run on the arguments of
\* the recorded call can return only the block, or the error with the same
\* text, that the recorded call returned, also when the attribute map has
\* two or more names outside the allowed set.
C13_Deterministic ==
  call.creator \in BlockNames =>
    DefaultCreators(call.creator, call.in, call.attr, call.children) =
      {[block |-> call.block, err |-> call.err]}

\* a RealizerChain.Realize call has returned
Returned == realized # NoRealize

\* the realizer does not decline the block
Takes(name, b) ==
  Lowers(name, b) \/ Realize(name, chain, RealizeDims, b).err # ErrUnsupportedBlock

\* the positions of the chain whose realizer does not decline the block
Takers(b) == {i \in 1..Len(chain) : Takes(chain[i], b)}

\* the positions 1, 2, ..., k in list order
UpTo(k) == [i \in 1..k |-> i]

\* C14: RealizerChain.Realize calls its realizers in list order and returns
\* what the first realizer that does not return ErrUnsupportedBlock returned;
\* the realizers after that one are not called, also when it returned an
\* error of its own.  If every realizer declines, or the chain is empty, it
\* returns a nil value and an "unsupported block" error that names the
\* block's runtime type.
C14_FirstTaker ==
  Returned =>
    LET b == realized.b
        t == Takers(b)
    IN  IF t = {}
        THEN /\ realized.calls = UpTo(Len(chain))
             /\ realized.val = NilVal
             /\ realized.err = Err("unsupported block", "*convmarkup." \o b.go, 0)
        ELSE LET k == Min(t)
                 r == Realize(chain[k], chain, realized.d, b)
             IN  /\ realized.calls = UpTo(k)
                 /\ ~Lowers(chain[k], b) =>
                      realized.val = r.obj /\ realized.err = r.err
                 /\ Lowers(chain[k], b) =>
                      \/ realized.val = Val(chain[k], b) /\ realized.err = NoErr
                      \/ realized.val = NilVal /\ realized.err # NoErr

\* the chain MetaRealizer, Strict, Any on an FC block: Strict's own error is
\* returned and Any, which would have made a value, is not called
C14_Witness ==
  /\ chain = <<"MetaRealizer", "Strict", "Any">>
  /\ rstack = <<>>
  /\ realized.b.go = "FC"
  /\ realized.calls = <<1, 2>>
  /\ realized.val = NilVal
  /\ realized.err.msg = "cannot realize"

\* C15: supported is false exactly when every realizer of the chain returned
\* ErrUnsupportedBlock (an empty chain included); a realizer that returns
\* any other error makes supported true, together with that error.
C15_SupportedFlag ==
  Returned =>
    LET b == realized.b
        t == Takers(b)
    IN  /\ realized.supported = FALSE <=> t = {}
        /\ t # {} =>
             LET k == Min(t)
                 r == Realize(chain[k], chain, realized.d, b)
             IN  (~Lowers(chain[k], b) /\ r.err # NoErr) =>
                    realized.supported = TRUE /\ realized.err = r.err
        /\ (t # {} /\ realized.err # NoErr) => realized.supported = TRUE

\* the chain Group alone on a Repeat: its children are unsupported, Group
\* returns that error, and the Repeat is reported supported with the error
C15_Witness ==
  /\ chain = <<"Group">>
  /\ rstack = <<>>
  /\ realized.b.go = "Repeat"
  /\ realized.supported = TRUE
  /\ realized.err.msg = "unsupported block"

LinesOf(t) == Split(t, "\n")

AllIn(s, class) == \A i \in 1..Len(s) : At(s, i) \in class

\* a signed decimal number, integer or fractional
IsNumber(s) ==
  LET digits == IF HasPrefix(s, "-") THEN SubSeq(s, 2, Len(s)) ELSE s
  IN  /\ AllIn(digits, Digits \cup {"."})
      /\ Cardinality({i \in 1..Len(digits) : At(digits, i) = "."}) <= 1
      /\ \E i \in 1..Len(digits) : At(digits, i) \in Digits

\* name=value, with blanks allowed before the name and after the value
IsPair(s) ==
  \E e \in 1..Len(s) :
     /\ At(s, e) = "="
     /\ \E k \in 0..(e - 1) :
          /\ AllIn(SubSeq(s, 1, k), {" "})
          /\ AllIn(SubSeq(s, k + 1, e - 1), Letters)
     /\ \E k \in e..Len(s) :
          /\ IsNumber(SubSeq(s, e + 1, k))
          /\ AllIn(SubSeq(s, k + 1, Len(s)), {" "})

\* the name of a pair
PairName(s) ==
  LET e == Find(s, 1, "=")
  IN  SubSeq(s, Skip(s, 1, {" "}), e - 1)

\* an ATTR_LIST: empty, or pairs separated by commas, no name twice
IsAttrList(s) ==
  \/ s = ""
  \/ LET parts == Split(s, ",")
     IN  /\ \A i \in 1..Len(parts) : IsPair(parts[i])
         /\ \A i, j \in 1..Len(parts) :
              i # j => PairName(parts[i]) # PairName(parts[j])

\* NAME, then an optional (ATTR_LIST), then an optional " {"
IsDecl(x) ==
  \E p \in 0..Len(x) : \E tail \in {"", " {"} :
     /\ AllIn(SubSeq(x, 1, p), Letters)
     /\ HasSuffix(SubSeq(x, p + 1, Len(x)), tail)
     /\ LET mid == SubSeq(x, p + 1, Len(x) - Len(tail))
        IN  \/ mid = ""
            \/ /\ Len(mid) >= 2
               /\ At(mid, 1) = "("
               /\ At(mid, Len(mid)) = ")"
               /\ IsAttrList(SubSeq(mid, 2, Len(mid) - 1))

\* the four kinds of line: blank or comment, closing, declaration (that
\* opens a body or not), and anything else
IsBlank(line) == TrimSpace(line) = "" \/ HasPrefix(TrimSpace(line), "#")

IsClose(line) == TrimSpace(line) = "}"

IsOpen(line) == ~IsBlank(line) /\ IsDecl(TrimSpace(line)) /\ HasSuffix(TrimSpace(line), " {")

IsLeaf(line) == ~IsBlank(line) /\ IsDecl(TrimSpace(line)) /\ ~HasSuffix(TrimSpace(line), " {")

IsBad(line) == ~IsBlank(line) /\ ~IsClose(line) /\ ~IsDecl(TrimSpace(line))

\* the malformed lines of a text
BadLines(ls) == {i \in 1..Len(ls) : IsBad(ls[i])}

\* how many bodies are open before line i
RECURSIVE DepthBefore(_, _)
DepthBefore(ls, i) ==
  IF i = 1 THEN 0
  ELSE DepthBefore(ls, i - 1)
       + (IF IsOpen(ls[i - 1]) THEN 1 ELSE IF IsClose(ls[i - 1]) THEN 0 - 1 ELSE 0)

\* opens and closes are balanced: no "}" without an open body, and no body
\* left open at the end
Balanced(ls) ==
  /\ \A i \in 1..(Len(ls) + 1) : DepthBefore(ls, i) >= 0
  /\ DepthBefore(ls, Len(ls) + 1) = 0

WellFormed(ls) == BadLines(ls) = {} /\ Balanced(ls)

\* the declarations of a text in source order, each with its 0-based line,
\* the number of bodies open around it and its name
Listing(ls) ==
  LET decls == {i \in 1..Len(ls) : IsOpen(ls[i]) \/ IsLeaf(ls[i])}
      nth(k) == CHOOSE i \in decls : Cardinality({j \in decls : j < i}) = k - 1
  IN  [k \in 1..Cardinality(decls) |->
         LET x == TrimSpace(ls[nth(k)])
         IN  [Line |-> nth(k) - 1, Depth |-> DepthBefore(ls, nth(k)),
              BlockName |-> SubSeq(x, 1, Skip(x, 1, Letters) - 1)]]

\* the nodes of a list of ASTNodes, parents before children, in order
RECURSIVE Flatten(_, _)
Flatten(ns, depth) ==
  IF ns = <<>> THEN <<>>
  ELSE <<[Line |-> ns[1].Line, Depth |-> depth, BlockName |-> ns[1].BlockName]>>
       \o Flatten(ns[1].Children, depth + 1) \o Flatten(Tail(ns), depth)

\* C17: for well-formed text Parse returns one root node, empty name and no
\* attributes, under which the declarations stand in source order, each
\* inside exactly the bodies that are open around its line; comment lines
\* and blank lines produce no node; and every node's Line is the 0-based
\* index of its line in the original text, at every nesting depth.
C17_ParseStructure ==
  (parsed # NotParsed /\ WellFormed(LinesOf(text))) =>
    /\ parsed.err = NilError
    /\ parsed.node.BlockName = ""
    /\ parsed.node.Attrs = <<>>
    /\ Flatten(parsed.node.Children, 0) = Listing(LinesOf(text))

\* a comment that ends in "{", then an indented body with one declaration
C17_Witness ==
  /\ text = "# c {\n  B {\nC(a=1, b=-0.5)\n}"
  /\ parsed.err = NilError
  /\ parsed.node =
       ASTNode(0, "", <<>>,
               <<ASTNode(1, "B", <<>>,
                         <<ASTNode(2, "C", Ints(<<"a">>, <<1>>) @@ ("b" :> 0 - 1), <<>>)>>)>>)

\* C18: Parse rejects ill-formed text and returns no partial AST: if any
\* line that is not blank, not a comment and not a closing "}" is not of
\* the form NAME, optional (ATTR_LIST), optional " {", Parse returns a nil
\* node and a ParseError whose Line is a line of the text, whatever the
\* nesting depth of the line.
C18_RejectsIllFormed ==
  (parsed # NotParsed /\ BadLines(LinesOf(text)) # {}) =>
    /\ parsed.node = NilNode
    /\ parsed.err # NilError
    /\ parsed.err.Message # ""
    /\ parsed.err.Line \in 0..(Len(LinesOf(text)) - 1)

\* a duplicate attribute name on a line inside a body
C18_Witness ==
  /\ text = "  B {\nA(a=1,a=2)\n}"
  /\ parsed = [node |-> NilNode, err |-> ParseError("duplicate attribute: a", 1)]

\* C19: whenever Parse fails because some line does not match the
\* declaration grammar (the text has malformed lines and, those apart, its
\* opens and closes are balanced), the ParseError's Line is the 0-based
\* index in the original text of the first malformed line, also inside a
\* nested body and also when the malformed line ends in "{".
C19_FirstMalformedLine ==
  (/\ parsed # NotParsed
   /\ BadLines(LinesOf(text)) # {}
   /\ Balanced(LinesOf(text))) =>
    /\ parsed.err # NilError
    /\ parsed.err.Line = Min(BadLines(LinesOf(text))) - 1

\* the line that ends the body opened at line i: scanning forward, depth
\* starts at 1, rises at each opening line, falls at each "}" line, and the
\* first "}" that brings it to 0 is the end; 0 if there is none
CloseOf(ls, i) ==
  LET ends == {j \in (i + 1)..Len(ls) :
                 IsClose(ls[j]) /\ DepthBefore(ls, j + 1) = DepthBefore(ls, i)}
  IN  IF ends = {} THEN 0 ELSE Min(ends)

\* the opening lines whose body never ends
Unclosed(ls) == {i \in 1..Len(ls) : IsOpen(ls[i]) /\ CloseOf(ls, i) = 0}

\* a node and every node below it
RECURSIVE Nodes(_)
Nodes(n) == {n} \cup UNION {Nodes(n.Children[k]) : k \in 1..Len(n.Children)}

\* C20: the body of an opening line ends at the first "}" line that brings
\* the depth, 1 at the opening line, one more at each later opening line and
\* one less at each "}" line, to 0: on success a node's descendants are the
\* declarations strictly between its line and that line.  If there is no
\* such line, Parse fails with a ParseError at the opening line (the first
\* such line, in a text that has no other defect); a "}" line with no open
\* body makes Parse fail; so Parse succeeds only on balanced text.
C20_BraceMatching ==
  parsed # NotParsed =>
    LET ls == LinesOf(text)
    IN  /\ parsed.err = NilError =>
             /\ Balanced(ls)
             /\ \A n \in Nodes(parsed.node) \ {parsed.node} :
                  {m.Line : m \in Nodes(n) \ {n}} =
                    IF IsOpen(ls[n.Line + 1])
                    THEN {k - 1 : k \in {k \in (n.Line + 2)..(CloseOf(ls, n.Line + 1) - 1) :
                                           IsOpen(ls[k]) \/ IsLeaf(ls[k])}}
                    ELSE {}
        /\ (/\ BadLines(ls) = {}
            /\ \A i \in 1..(Len(ls) + 1) : DepthBefore(ls, i) >= 0
            /\ Unclosed(ls) # {}) =>
             /\ parsed.node = NilNode
             /\ parsed.err # NilError
             /\ parsed.err.Line = Min(Unclosed(ls)) - 1
        /\ (\E i \in 1..Len(ls) : IsClose(ls[i]) /\ DepthBefore(ls, i) = 0) =>
             parsed.node = NilNode /\ parsed.err # NilError

\* the second of two nested opening lines has a "}", the first has none
C20_Witness ==
  /\ text = "A\n  B {\n  B {\n}"
  /\ parsed = [node |-> NilNode, err |-> ParseError("no matching }", 1)]

\* the number of blocks of a tree: the block, and the blocks of its
\* Children, or of its Projection and Residual lists
RECURSIVE Size(_)
RECURSIVE SizeAll(_)
SizeAll(bs) == IF bs = <<>> THEN 0 ELSE Size(bs[1]) + SizeAll(Tail(bs))

Size(b) ==
  1 + (CASE b.go \in {"Root", "Projection", "Repeat"} -> SizeAll(b.Children)
         [] b.go = "Residual" -> SizeAll(b.Projection) + SizeAll(b.Residual)
         [] OTHER -> 0)

\* a Residual creator call whose first child is a Projection
LeadsWithProjection(c) ==
  /\ c.creator = "Residual"
  /\ Len(c.children) >= 1
  /\ c.children[1].go = "Projection"

\* the number of Residual blocks of a tree that hold a projection branch
RECURSIVE Detached(_)
RECURSIVE DetachedAll(_)
DetachedAll(bs) == IF bs = <<>> THEN 0 ELSE Detached(bs[1]) + DetachedAll(Tail(bs))

Detached(b) ==
  CASE b.go \in {"Root", "Projection", "Repeat"} -> DetachedAll(b.Children)
    [] b.go = "Residual" ->
         (IF b.Projection # <<>> THEN 1 ELSE 0)
           + DetachedAll(b.Projection) + DetachedAll(b.Residual)
    [] OTHER -> 0

\* C21: a text that elaborates without error under the default registry
\* gives a tree with as many blocks as the AST has nodes, less one for each
\* Residual whose first child is a Projection.  Creator by creator: the
\* block returned has one block more than its children together, except
\* that a Residual led by a Projection has exactly as many, the Projection
\* block being dropped and its children kept.
C21_StructuralRoundTrip ==
  /\ (call.creator \in BlockNames /\ Succeeded(call)) =>
       Size(call.block) =
         SizeAll(call.children) + (IF LeadsWithProjection(call) THEN 0 ELSE 1)
  /\ status = "done" =>
       Size(result.block) = nodes - Detached(result.block)

\* Residual { Projection { . } . } under the root: five AST nodes, four blocks
C21_Witness ==
  /\ status = "done"
  /\ nodes = 5
  /\ Size(result.block) = 4
  /\ result.block.Children[1].go = "Residual"
  /\ Len(result.block.Children[1].Projection) = 1

\* what a creator can answer, as far as a caller can tell two pooling
\* creators apart: the error, or the OutDims of the block
Outcomes(rs) ==
  {[err |-> r.err,
    out |-> IF r.err = NoErr THEN OutDims(r.block) ELSE Dims(0, 0, 0)] : r \in rs}

\* C22: MeanPool works the same way as MaxPool: on the same input Dims,
\* attributes and children the two creators accept or reject alike and,
\* when they accept, give the same OutDims (both drop partial pools), for
\* CreateMaxPool and CreateMeanPool of blocks.go and for PoolCreator under
\* the two names.
C22_MeanPoolAsMaxPool ==
  /\ call.creator \in {"CreateMaxPool", "CreateMeanPool"} =>
       Outcomes(CreateMaxPool(call.in, call.attr, call.children)) =
         Outcomes(CreateMeanPool(call.in, call.attr, call.children))
  /\ call.creator \in {"MaxPool", "MeanPool"} =>
       Outcomes(PoolCreator("MaxPool", call.in, call.attr, call.children)) =
         Outcomes(PoolCreator("MeanPool", call.in, call.attr, call.children))

\* C23: with valid integer w, h >= 1, CreateResize fails, with no block, iff
\* the inherited input has Width, Height or Depth 0; otherwise it succeeds
\* with OutDims (w, h, in.Depth), so neither the input nor the output of a
\* Resize that was created is empty.
C23_Resize ==
  (/\ call.creator = "Resize"
   /\ call.children = <<>>
   /\ ValidAttrs(call.attr, {"w", "h"}, {}, 1)) =>
    LET empty == call.in.Width = 0 \/ call.in.Height = 0 \/ call.in.Depth = 0
    IN  /\ empty => Failed(call) /\ call.err.msg = "input cannot be empty"
        /\ ~empty =>
             /\ Succeeded(call)
             /\ OutDims(call.block) =
                  Dims(IntOf(call.attr["w"]), IntOf(call.attr["h"]), call.in.Depth)
             /\ OutDims(call.block).Width > 0
             /\ OutDims(call.block).Height > 0
             /\ OutDims(call.block).Depth > 0

\* Resize(w=2, h=1) on an input that is empty in depth alone
C23_Witness ==
  /\ call.creator = "Resize"
  /\ call.attr = Ints(<<"w", "h">>, <<2, 1>>)
  /\ call.in = Dims(2, 1, 0)
  /\ call.block = NilBlock
  /\ call.err = Err("input cannot be empty", "", 0)

\* the Dims the child after the i-th finished child of a frame is, or will
\* be, elaborated with
InAfter(f, i) == IF i < Len(f.ins) THEN f.ins[i + 1] ELSE ChildIn(f)

\* a finished Projection child puts out the Dims it was elaborated with, and
\* the child after it starts from those Dims
Transparent(f) ==
  \A i \in 1..Len(f.children) :
    f.children[i].go = "Projection" =>
      /\ OutDims(f.children[i]) = f.ins[i]
      /\ InAfter(f, i) = f.ins[i]

\* a Residual whose first child is a finished Projection: that Projection
\* and the child after it both start from the Residual's own input
BranchesShareInput(f) ==
  (/\ f.name = "Residual"
   /\ Len(f.children) >= 1
   /\ f.children[1].go = "Projection") =>
    /\ f.ins[1] = f.in
    /\ InAfter(f, 1) = f.in

\* a Projection being elaborated as the first child of a Residual, and its
\* own first child, start from the Residual's input
ProjectionStartsAtInput(k) ==
  (/\ k >= 2
   /\ stack[k].name = "Projection"
   /\ stack[k - 1].name = "Residual"
   /\ Len(stack[k - 1].children) = 0) =>
    /\ stack[k].in = stack[k - 1].in
    /\ InAfter(stack[k], 0) = stack[k - 1].in

\* C24: a Projection's OutDims is the input Dims it received, never its
\* children's output; so in a Residual whose first child is a Projection the
\* first residual-branch child is elaborated with the Residual's own input
\* Dims, and the projection branch starts from that same input.
C24_ProjectionTransparency ==
  /\ (call.creator = "Projection" /\ Succeeded(call)) =>
       OutDims(call.block) = call.in
  /\ \A k \in 1..Len(stack) :
       /\ Transparent(stack[k])
       /\ BranchesShareInput(stack[k])
       /\ ProjectionStartsAtInput(k)

\* Residual { Projection { Conv(n=2) } Conv(n=2) } on a 2x2x1 input: the
\* projection's child puts out depth 2, the residual branch still starts
\* from depth 1
C24_Witness ==
  /\ Len(stack) = 2
  /\ stack[2].name = "Residual"
  /\ stack[2].in = Dims(2, 2, 1)
  /\ Len(stack[2].children) = 2
  /\ stack[2].children[1].go = "Projection"
  /\ OutDims(stack[2].children[1].Children[1]) = Dims(2, 2, 2)
  /\ stack[2].ins = <<Dims(2, 2, 1), Dims(2, 2, 1)>>

\* C25: RealizerChain.Realize hands every realizer the whole chain, not the
\* realizers after it: when the realizer at position k lowers a child by
\* calling the chain it was given, the realizers are tried on the child from
\* the first one on, so a realizer ahead of k, which declined the parent,
\* can be the one that handles the child.
C25_WholeChain ==
  /\ \A n \in 2..Len(rstack) : rstack[n].calls = UpTo(rstack[n].i - 1)
  /\ (rstack # <<>> /\ rstack[Len(rstack)].kid >= 1) =>
       LET top == rstack[Len(rstack)]
       IN  /\ Returned
           /\ realized.b = top.b.Children[top.kid]
           /\ realized.calls = UpTo(Len(realized.calls))
           /\ \A j \in Takers(realized.b) : Len(realized.calls) <= j

\* chain (Layers, Group) on Repeat { FC ReLU }: Layers declines the Repeat,
\* Group at position 2 lowers the FC child, and Layers at position 1 makes it
C25_Witness ==
  /\ chain = <<"Layers", "Group">>
  /\ Len(rstack) = 1
  /\ rstack[1].b.go = "Repeat"
  /\ rstack[1].i = 2
  /\ rstack[1].calls = <<1>>
  /\ rstack[1].kid = 1
  /\ Returned
  /\ realized.b.go = "FC"
  /\ realized.calls = <<1>>
  /\ realized.supported
  /\ realized.val = Val("Layers", realized.b)

\* the lists whose last element the block's code indexes are not empty
Indexable(b) ==
  CASE b.go \in {"Root", "Projection"} -> Len(b.Children) >= 1
    [] b.go = "Residual" -> Len(b.Residual) >= 1
    [] OTHER -> TRUE

\* the trees the creators have returned so far: the finished children of
\* every Block call under way, the block of the last creator call, and the
\* result
Produced ==
  UNION {Range(stack[k].children) : k \in 1..Len(stack)}
    \cup (IF Succeeded(call) THEN {call.block} ELSE {})
    \cup (IF status = "done" THEN {result.block} ELSE {})

\* C26: in every block tree the default creators produce, each Root and each
\* Projection has at least one child and each Residual at least one
\* residual-branch child, and a leading Projection that CreateResidual
\* detaches has a non-empty child list; so Root.OutDims, Residual.OutDims
\* and the projection-branch lookup of CreateResidual never index an empty
\* list.
C26_IndexingSafety ==
  /\ \A t \in Produced : \A b \in Blocks(t) : Indexable(b)
  /\ LeadsWithProjection(call) => Len(call.children[1].Children) >= 1
  /\ call.err # Panic
  /\ result.err # Panic

\* CreateResidual has detached a leading Projection with one child and kept
\* one residual-branch child
C26_Witness ==
  /\ call.creator = "Residual"
  /\ Succeeded(call)
  /\ LeadsWithProjection(call)
  /\ Len(call.children[1].Children) = 1
  /\ Len(call.block.Projection) = 1
  /\ Len(call.block.Residual) = 1
====
